---- MODULE Spec2Model ----
(***************************************************************************)
(* efikeygen (pesign): one run of main(), the extension assembly of        *)
(* add_extensions_to_crq() and the signature bundling of                   *)
(* bundle_signature(), with DER modelled at the byte level.                *)
(***************************************************************************)
EXTENDS Integers, Sequences, FiniteSets, TLC

(* ------------------------------ bounds --------------------------------- *)
NumKeys == 2
MaxSmallSig == 1
MaxTbsLen == 2
NumSeeds == 1

(* ------------------------- program constants --------------------------- *)
NULL == "NULL"
SECSuccess == 0
SECFailure == -1
SEC_ASN1_SEQUENCE == 48
SEC_ASN1_OCTET_STRING == 4
DER_BIT_STRING == 3
PatchOffset == 261
SEC_OID_PKCS1_SHA256_WITH_RSA_ENCRYPTION == "sha256WithRSAEncryption"

(* ------------------------------ DER ------------------------------------ *)
\* DER definite length octets of a content of n bytes.
DerLen(n) ==
  IF n < 128 THEN <<n>>
  ELSE IF n < 256 THEN <<129, n>>
  ELSE <<130, n \div 256, n % 256>>

DerTLV(tag, content) == <<tag>> \o DerLen(Len(content)) \o content

\* Bytes buf[from..to] (1-based, inclusive); empty when to < from.
Slice(buf, from, to) == SubSeq(buf, from, to)

\* Parse the TLV that starts at position pos of buf.
\* ok = FALSE when the header or the content runs past the end of buf.
ParseTLV(buf, pos) ==
  IF pos + 1 > Len(buf) THEN [ok |-> FALSE]
  ELSE
    LET l0 == buf[pos + 1]
        nlen == IF l0 < 128 THEN 0 ELSE l0 - 128
    IN IF nlen > 2 \/ pos + 1 + nlen > Len(buf) THEN [ok |-> FALSE]
       ELSE
         LET clen == IF nlen = 0 THEN l0
                     ELSE IF nlen = 1 THEN buf[pos + 2]
                     ELSE buf[pos + 2] * 256 + buf[pos + 3]
             start == pos + 2 + nlen
         IN IF start + clen - 1 > Len(buf) THEN [ok |-> FALSE]
            ELSE [ok |-> TRUE, tag |-> buf[pos], start |-> start,
                  len |-> clen, next |-> start + clen,
                  content |-> Slice(buf, start, start + clen - 1),
                  raw |-> Slice(buf, pos, start + clen - 1)]

\* The object identifier octets NSS holds for an OID tag (empty: unknown).
OidBytes(tag) ==
  IF tag = SEC_OID_PKCS1_SHA256_WITH_RSA_ENCRYPTION
  THEN <<42, 134, 72, 134, 247, 13, 1, 1, 11>>
  ELSE <<>>

\* generate_algorithm_id: AlgorithmIdentifier { OID, NULL parameters }.
generate_algorithm_id(oid) ==
  [algorithm |-> OidBytes(oid), parameters |-> <<5, 0>>]

\* SECOID_AlgorithmIDTemplate: SEQUENCE { OBJECT IDENTIFIER, ANY OPTIONAL }.
EncodeAlgorithmID(id) ==
  DerTLV(SEC_ASN1_SEQUENCE, DerTLV(6, id.algorithm) \o id.parameters)

\* SEC_ASN1EncodeItem(cert, SignedCertTemplate):
\* SEQUENCE { ANY data, INLINE AlgorithmID keytype, OCTET STRING sig }.
SignedCertTemplate(cert) ==
  DerTLV(SEC_ASN1_SEQUENCE,
         cert.data \o EncodeAlgorithmID(cert.keytype)
                   \o DerTLV(SEC_ASN1_OCTET_STRING, cert.sig))

\* A DER decoder of the SignedCert SEQUENCE: the three fields as sent.
DecodeSignedCert(buf) ==
  LET outer == ParseTLV(buf, 1) IN
  IF Len(buf) < 2 \/ ~outer.ok \/ outer.tag # SEC_ASN1_SEQUENCE
     \/ outer.next # Len(buf) + 1
  THEN [ok |-> FALSE]
  ELSE
    LET f1 == ParseTLV(buf, outer.start) IN
    IF ~f1.ok THEN [ok |-> FALSE]
    ELSE
      LET f2 == ParseTLV(buf, f1.next) IN
      IF ~f2.ok \/ f2.tag # SEC_ASN1_SEQUENCE THEN [ok |-> FALSE]
      ELSE
        LET o == ParseTLV(buf, f2.start)
            f3 == ParseTLV(buf, f2.next)
        IN IF ~o.ok \/ o.tag # 6 \/ o.next > f2.next
              \/ ~f3.ok \/ f3.next # Len(buf) + 1
           THEN [ok |-> FALSE]
           ELSE [ok |-> TRUE, data |-> f1.raw, oid |-> o.content,
                 sigtag |-> f3.tag, sig |-> f3.content]

\* n bytes with a recognisable, position dependent content.
Fill(n, seed) == [i \in 1..n |-> (seed + 3 * i) % 256]


(* ------------------------------ state ---------------------------------- *)
VARIABLES
  argv,          \* the command line: [ca, self_sign, signer, cn, url, serial]
  outfile0,      \* the output file as it was before the run
  pc,            \* position of the run in main()
  exit_status,   \* process exit status once pc = "exit"
  is_ca, is_self_signed, signer, cn, url, serial_str, serial,
  outfile,       \* the output file on disk: [exists, data]
  outfd, p12fd,
  cms,           \* cms context allocated
  nss,           \* NSS_InitReadWrite succeeded
  pubkey,        \* subject public key
  cert,          \* cms->cert: the signer's certificate (its public key)
  extHandle,     \* extensions handle open on the certificate request
  exts,          \* extensions appended to the handle, in order
  finished,      \* CERT_FinishExtensions was called
  crq_rc,        \* return value of add_extensions_to_crq
  certder,       \* to-be-signed bytes
  privkey,
  status,        \* main's SECStatus status
  signature,     \* the raw signature item handed to bundle_signature
  cert_sig,      \* bundle_signature's cert.sig buffer
  sigder,        \* bundle_signature's output item
  bundle_rc,     \* bundle_signature's return value (main drops it)
  write_called,  \* write(outfd, ...) was reached
  rc             \* main's rc after write()

opts == <<is_ca, is_self_signed, signer, cn, url, serial_str>>
env == <<argv, outfile0>>
files == <<outfile, outfd, p12fd>>
prov == <<cms, nss, pubkey, cert, serial, privkey>>
extv == <<extHandle, exts, finished, crq_rc>>
signv == <<certder, status, signature, cert_sig, sigder, bundle_rc,
           write_called, rc>>
vars == <<env, pc, exit_status, opts, files, prov, extv, signv>>

Keys == {<<16 * k, k>> : k \in 1..NumKeys}
SerialStrs == {"1", "99999999999999999999"}
CommonNames == {NULL, "Test CA", "leaf"}
Urls == {NULL, "http://ca/"}
Signers == {NULL, "signer"}
Args == [ca : BOOLEAN, self_sign : BOOLEAN, signer : Signers,
         cn : CommonNames, url : Urls, serial : SerialStrs]
NoFile == [exists |-> FALSE, data |-> <<>>]
OldFile == [exists |-> TRUE, data |-> <<9, 9>>]
NoKey == <<>>
NoItem == [data |-> <<>>, len |-> 0]

\* Lines 353-366 and 443-447, 524: the locals of main before argv is read.
Init ==
  /\ argv \in Args
  /\ outfile0 \in {NoFile, OldFile}
  /\ pc = "parse"
  /\ exit_status = -1
  /\ is_ca = 0
  /\ is_self_signed = -1
  /\ signer = NULL
  /\ cn = NULL
  /\ url = NULL
  /\ serial_str = NULL
  /\ serial = NULL
  /\ outfile = outfile0
  /\ outfd = -1
  /\ p12fd = -1
  /\ cms = FALSE
  /\ nss = FALSE
  /\ pubkey = NoKey
  /\ cert = NoKey
  /\ extHandle = FALSE
  /\ exts = <<>>
  /\ finished = FALSE
  /\ crq_rc = 1
  /\ certder = NoItem
  /\ privkey = NULL
  /\ status = SECSuccess
  /\ signature = NoItem
  /\ cert_sig = NoItem
  /\ sigder = NoItem
  /\ bundle_rc = 1
  /\ write_called = FALSE
  /\ rc = 0

\* err()/errx()/exit(): the process ends with the given status.
Exit(code) == pc' = "exit" /\ exit_status' = code

(* ------------------------------ main ----------------------------------- *)
\* popt fills the option variables, or the command line is refused.
ParseOptions ==
  /\ pc = "parse"
  /\ \E popt \in {"ok", "config", "badopt", "extra"} :
       IF popt = "ok"
       THEN /\ is_ca' = IF argv.ca THEN 1 ELSE 0
            /\ is_self_signed' = IF argv.self_sign THEN 1 ELSE -1
            /\ signer' = argv.signer
            /\ cn' = argv.cn
            /\ url' = argv.url
            /\ serial_str' = argv.serial
            /\ pc' = "validate"
            /\ UNCHANGED exit_status
       ELSE /\ Exit(1)
            /\ UNCHANGED opts
  /\ UNCHANGED <<env, files, prov, extv, signv, serial>>

\* Mutant: the default ignores whether a signer was given.
ResolveSelfSignedIgnoresSigner(ss, ca, sg) ==
  IF ss = -1 THEN (IF ca # 0 THEN 1 ELSE 0) ELSE ss

\* is_self_signed == -1 ? (is_ca && !signer ? 1 : 0) : is_self_signed
ResolveSelfSigned(ss, ca, sg) ==
  IF ss = -1 THEN (IF ca # 0 /\ sg = NULL THEN 1 ELSE 0) ELSE ss

\* Mutant: the test for --self-sign together with --signer is missing.
ValidateOptionsNoConflictCheck ==
  /\ pc = "validate"
  /\ LET ss == ResolveSelfSigned(is_self_signed, is_ca, signer) IN
     /\ is_self_signed' = ss
     /\ IF cn = NULL THEN Exit(1)
        ELSE IF ss = 0 /\ signer = NULL THEN Exit(1)
        ELSE pc' = "open" /\ UNCHANGED exit_status
  /\ UNCHANGED <<env, is_ca, signer, cn, url, serial_str, files, prov,
                 extv, signv>>

\* Lines 422-433: resolve is_self_signed, then the three fatal tests.
ValidateOptions ==
  /\ pc = "validate"
  /\ LET ss == ResolveSelfSigned(is_self_signed, is_ca, signer) IN
     /\ is_self_signed' = ss
     /\ IF ss # 0 /\ signer # NULL THEN Exit(1)
        ELSE IF cn = NULL THEN Exit(1)
        ELSE IF ss = 0 /\ signer = NULL THEN Exit(1)
        ELSE pc' = "open" /\ UNCHANGED exit_status
  /\ UNCHANGED <<env, is_ca, signer, cn, url, serial_str, files, prov,
                 extv, signv>>

\* open(outfile, O_RDWR|O_CREAT|O_TRUNC) then open(poutfile, ...): the second
\* result is never tested (line 440 tests outfd again) and poutfile is NULL
\* here, so p12fd is -1.
OpenFiles ==
  /\ pc = "open"
  /\ \E ok \in BOOLEAN :
       IF ok
       THEN /\ outfile' = [exists |-> TRUE, data |-> <<>>]
            /\ outfd' = 3
            /\ p12fd' = -1
            /\ pc' = "pubkey"
            /\ UNCHANGED exit_status
       ELSE /\ Exit(1)
            /\ UNCHANGED files
  /\ UNCHANGED <<env, opts, prov, extv, signv>>

ReadPubkey ==
  /\ pc = "pubkey"
  /\ \/ \E k \in Keys :
          /\ pubkey' = k
          /\ pc' = "cms"
          /\ UNCHANGED exit_status
     \/ /\ Exit(1)
        /\ UNCHANGED pubkey
  /\ UNCHANGED <<env, opts, files, cms, nss, cert, serial, privkey, extv,
                 signv>>

\* cms_context_alloc and the two strdup calls.
AllocContext ==
  /\ pc = "cms"
  /\ \E ok \in BOOLEAN :
       IF ok THEN cms' = TRUE /\ pc' = "nss" /\ UNCHANGED exit_status
       ELSE Exit(1) /\ UNCHANGED cms
  /\ UNCHANGED <<env, opts, files, nss, pubkey, cert, serial, privkey, extv,
                 signv>>

InitNSS ==
  /\ pc = "nss"
  /\ \E st \in {SECSuccess, SECFailure} :
       /\ status' = st
       /\ IF st = SECSuccess
          THEN nss' = TRUE /\ pc' = "findcert" /\ UNCHANGED exit_status
          ELSE Exit(1) /\ UNCHANGED nss
  /\ UNCHANGED <<env, opts, files, cms, pubkey, cert, serial, privkey, extv,
                 certder, signature, cert_sig, sigder, bundle_rc,
                 write_called, rc>>

\* find_certificate(cms) runs only for a certificate signed by a signer.
FindCertificate ==
  /\ pc = "findcert"
  /\ IF is_self_signed = 0
     THEN \/ \E k \in Keys :
               cert' = k /\ pc' = "serial" /\ UNCHANGED exit_status
          \/ Exit(1) /\ UNCHANGED cert
     ELSE pc' = "serial" /\ UNCHANGED <<cert, exit_status>>
  /\ UNCHANGED <<env, opts, files, cms, nss, pubkey, serial, privkey, extv,
                 signv>>

\* strtoull(serial_str, NULL, 0): the value, and whether errno is ERANGE.
Strtoull(s) ==
  IF s = "1" THEN [value |-> "1", erange |-> FALSE]
  ELSE [value |-> "ULLONG_MAX", erange |-> TRUE]

ParseSerial ==
  /\ pc = "serial"
  /\ LET r == Strtoull(serial_str) IN
     /\ serial' = r.value
     /\ IF r.erange /\ r.value = "ULLONG_MAX" THEN Exit(1)
        ELSE pc' = "gencert" /\ UNCHANGED exit_status
  /\ UNCHANGED <<env, opts, files, cms, nss, pubkey, cert, privkey, extv,
                 signv>>


(* ------------------------- extension values ---------------------------- *)
SEC_OID_X509_SUBJECT_KEY_ID == "subject-key-id"
SEC_OID_X509_AUTH_KEY_ID == "authority-key-id"
SEC_OID_X509_KEY_USAGE == "key-usage"
SEC_OID_X509_BASIC_CONSTRAINTS == "basic-constraints"
SEC_OID_X509_EXT_KEY_USAGE == "extended-key-usage"
SEC_OID_X509_AUTH_INFO_ACCESS == "authority-info-access"

\* CERT_AddExtension(extHandle, oid, value, critical, copyData)
Extension(oid, value, critical) ==
  [oid |-> oid, critical |-> critical, value |-> value]

\* SubjectPublicKeyInfo octets of a key.
PK11_DEREncodePublicKey(key) ==
  DerTLV(SEC_ASN1_SEQUENCE, DerTLV(DER_BIT_STRING, <<0>> \o key))

\* The key identifier: a digest of the encoded key.  The digest is a stand-in
\* that mixes every octet and has no collisions between inputs of one length.
PK11_MakeIDFromPubKey(der) ==
  [i \in 1..Len(der) |-> (31 * der[i] + 7 * i) % 256]

generate_octet_string(data) == DerTLV(SEC_ASN1_OCTET_STRING, data)

\* [ctxt] EXPLICIT wrapper: context-specific, constructed.
make_context_specific(ctxt, data) == DerTLV(160 + ctxt, data)

wrap_in_seq(data) == DerTLV(SEC_ASN1_SEQUENCE, data)

SubjectKeyIdValue(key) ==
  generate_octet_string(PK11_MakeIDFromPubKey(PK11_DEREncodePublicKey(key)))

AuthKeyIdValue(key) ==
  wrap_in_seq(make_context_specific(0,
      PK11_MakeIDFromPubKey(PK11_DEREncodePublicKey(key))))

\* value[0..3] of add_key_usage
KeyUsageValue == <<3, 2, 1, 134>>

CERT_UNLIMITED_PATH_CONSTRAINT == -2

\* CERT_EncodeBasicConstraintValue: SEQUENCE { cA BOOLEAN DEFAULT FALSE,
\* pathLenConstraint INTEGER OPTIONAL }.
CERT_EncodeBasicConstraintValue(bc) ==
  DerTLV(SEC_ASN1_SEQUENCE,
         (IF bc.isCA THEN <<1, 1, 255>> ELSE <<>>)
         \o (IF bc.pathLenConstraint = CERT_UNLIMITED_PATH_CONSTRAINT
             THEN <<>> ELSE <<2, 1, bc.pathLenConstraint>>))

\* Mutant: isCA is left PR_FALSE.
BasicConstraintNotCA ==
  [isCA |-> FALSE, pathLenConstraint |-> CERT_UNLIMITED_PATH_CONSTRAINT]

\* The basicConstraint structure add_basic_constraints fills in.
BasicConstraint ==
  [isCA |-> TRUE, pathLenConstraint |-> CERT_UNLIMITED_PATH_CONSTRAINT]

ExtKeyUsageValue == <<48, 10, 6, 8, 43, 6, 1, 5, 5, 7, 3, 3>>

UrlBytes(u) ==
  IF u = NULL THEN <<>>
  ELSE <<104, 116, 116, 112, 58, 47, 47, 99, 97, 47>>

\* generate_auth_info: SEQUENCE OF AccessDescription { caIssuers, [6] url }.
generate_auth_info(u) ==
  wrap_in_seq(wrap_in_seq(DerTLV(6, <<43, 6, 1, 5, 5, 7, 48, 2>>)
                          \o DerTLV(134, UrlBytes(u))))

(* ----------------------- add_extensions_to_crq ------------------------- *)
\* The signer's public key handed to add_extensions_to_crq: the subject's
\* own key for a self-signed certificate, else the key of cms->cert.
spubkey == IF is_self_signed # 0 THEN pubkey ELSE cert

\* A step of add_extensions_to_crq failed: cmsreterr(-1, ...).
CrqFail ==
  /\ crq_rc' = -1
  /\ pc' = "gen_ret"
  /\ UNCHANGED <<exts, finished, exit_status>>

\* A step appended one extension and control moves on to `next`.
CrqAppend(e, next) ==
  /\ exts' = Append(exts, e)
  /\ pc' = next
  /\ UNCHANGED <<finished, crq_rc, exit_status>>

StartAttributes ==
  /\ pc = "gencert"
  /\ \E ok \in BOOLEAN :
       IF ok
       THEN /\ extHandle' = TRUE
            /\ pc' = "skid"
            /\ UNCHANGED <<exts, finished, crq_rc, exit_status>>
       ELSE CrqFail /\ UNCHANGED extHandle
  /\ UNCHANGED <<env, opts, files, prov, signv>>

\* Mutant: the CA-only extensions are added whatever is_ca is.
AfterSubjectKeyIdAlwaysCA == "bc"

\* if (is_ca) { basic constraints; key usage }
AfterSubjectKeyId == IF is_ca # 0 THEN "bc" ELSE "eku"

AddSubjectKeyId ==
  /\ pc = "skid"
  /\ \E ok \in BOOLEAN :
       IF ok
       THEN CrqAppend(Extension(SEC_OID_X509_SUBJECT_KEY_ID,
                                SubjectKeyIdValue(pubkey), FALSE),
                      AfterSubjectKeyId)
       ELSE CrqFail
  /\ UNCHANGED <<env, opts, files, prov, signv, extHandle>>

AddBasicConstraints ==
  /\ pc = "bc"
  /\ \E ok \in BOOLEAN :
       IF ok
       THEN CrqAppend(Extension(SEC_OID_X509_BASIC_CONSTRAINTS,
                        CERT_EncodeBasicConstraintValue(BasicConstraint),
                        TRUE),
                      "ku")
       ELSE CrqFail
  /\ UNCHANGED <<env, opts, files, prov, signv, extHandle>>

\* Mutant: the result of add_key_usage is not tested.
AddKeyUsageIgnoresFailure ==
  /\ pc = "ku"
  /\ \E ok \in BOOLEAN :
       IF ok
       THEN CrqAppend(Extension(SEC_OID_X509_KEY_USAGE, KeyUsageValue, TRUE),
                      "eku")
       ELSE /\ crq_rc' = -1
            /\ pc' = "eku"
            /\ UNCHANGED <<exts, finished, exit_status>>
  /\ UNCHANGED <<env, opts, files, prov, signv, extHandle>>

AddKeyUsage ==
  /\ pc = "ku"
  /\ \E ok \in BOOLEAN :
       IF ok
       THEN CrqAppend(Extension(SEC_OID_X509_KEY_USAGE, KeyUsageValue, TRUE),
                      "eku")
       ELSE CrqFail
  /\ UNCHANGED <<env, opts, files, prov, signv, extHandle>>

AddExtendedKeyUsage ==
  /\ pc = "eku"
  /\ \E ok \in BOOLEAN :
       IF ok
       THEN CrqAppend(Extension(SEC_OID_X509_EXT_KEY_USAGE,
                                ExtKeyUsageValue, FALSE),
                      "akid")
       ELSE CrqFail
  /\ UNCHANGED <<env, opts, files, prov, signv, extHandle>>

\* Mutant: the subject's key is used whatever is_self_signed is.
AuthKeyAlwaysSubject == pubkey

\* if (is_self_signed) add_auth_key_id(pubkey) else add_auth_key_id(spubkey)
AuthKey == IF is_self_signed # 0 THEN pubkey ELSE spubkey

\* add_auth_key_id: a failure to encode the key, to derive the id or to append
\* the extension ends the process (cmserr); a failure of the two wrapping
\* steps returns -1 (cmsreterr).
AddAuthKeyId ==
  /\ pc = "akid"
  /\ \E res \in {"ok", "cmserr", "cmsreterr"} :
       CASE res = "ok" ->
              CrqAppend(Extension(SEC_OID_X509_AUTH_KEY_ID,
                                  AuthKeyIdValue(AuthKey), FALSE),
                        "aia")
         [] res = "cmserr" ->
              Exit(255) /\ UNCHANGED <<exts, finished, crq_rc>>
         [] res = "cmsreterr" -> CrqFail
  /\ UNCHANGED <<env, opts, files, prov, signv, extHandle>>

AddAuthInfo ==
  /\ pc = "aia"
  /\ \E ok \in BOOLEAN :
       IF ok
       THEN CrqAppend(Extension(SEC_OID_X509_AUTH_INFO_ACCESS,
                                generate_auth_info(url), FALSE),
                      "finish")
       ELSE CrqFail
  /\ UNCHANGED <<env, opts, files, prov, signv, extHandle>>

\* CERT_FinishExtensions, CERT_FinishCertificateRequestAttributes, return 0
FinishExtensions ==
  /\ pc = "finish"
  /\ finished' = TRUE
  /\ extHandle' = FALSE
  /\ crq_rc' = 0
  /\ pc' = "gen_ret"
  /\ UNCHANGED <<env, opts, files, prov, signv, exts, exit_status>>


(* ------------------- certificate, signature, output -------------------- *)
TbsLens == (1..MaxTbsLen) \cup {PatchOffset + MaxTbsLen}
SigLens == (0..MaxSmallSig)
           \cup {PatchOffset - 6, PatchOffset - 5, PatchOffset - 4,
                 2 * (PatchOffset - 5)}
Seeds == 1..NumSeeds

Item(bytes) == [data |-> bytes, len |-> Len(bytes)]

\* generate_signing_certificate after add_extensions_to_crq has returned: the
\* request is refused when the extensions failed, else it is DER encoded.
generate_signing_certificate ==
  /\ pc = "gen_ret"
  /\ IF crq_rc < 0
     THEN rc' = -1 /\ UNCHANGED certder
     ELSE \/ rc' = -1 /\ UNCHANGED certder
          \/ \E n \in TbsLens :
               /\ certder' = Item(DerTLV(SEC_ASN1_SEQUENCE, Fill(n, n)))
               /\ rc' = 0
  /\ pc' = "gen_check"
  /\ UNCHANGED <<env, exit_status, opts, files, prov, extv, status,
                 signature, cert_sig, sigder, bundle_rc, write_called>>

\* if (rc < 0) errx(1, "could not generate certificate")
CheckCertificate ==
  /\ pc = "gen_check"
  /\ IF rc < 0 THEN Exit(1) ELSE pc' = "find_key" /\ UNCHANGED exit_status
  /\ UNCHANGED <<env, opts, files, prov, extv, signv>>

\* SECOID_FindOIDByTag and PK11_FindKeyByAnyCert, each fatal when it fails.
FindSigningKey ==
  /\ pc = "find_key"
  /\ \E res \in {"ok", "no_oid", "no_privkey"} :
       IF res = "ok"
       THEN privkey' = "privkey" /\ pc' = "sign" /\ UNCHANGED exit_status
       ELSE Exit(1) /\ UNCHANGED privkey
  /\ UNCHANGED <<env, opts, files, cms, nss, pubkey, cert, serial, extv,
                 signv>>

\* status = SEC_SignData(&signature, ...): status is never tested.  On
\* failure &signature is left as it was: uninitialised, any item at all.
SignData ==
  /\ pc = "sign"
  /\ \E st \in {SECSuccess, SECFailure}, n \in SigLens, seed \in Seeds :
       /\ status' = st
       /\ signature' = Item(Fill(n, 16 * seed))
  /\ pc' = "bundle"
  /\ UNCHANGED <<env, exit_status, opts, files, prov, extv, certder,
                 cert_sig, sigder, bundle_rc, write_called, rc>>

\* Mutant: the signature is copied to offset 0 instead of offset 1.
SigBufferNoOffset(sig) == Item(sig.data \o <<0>>)

\* cert.sig: calloc(1, len + 1), then memcpy(data + 1, signature->data, len)
SigBuffer(sig) == Item(<<0>> \o sig.data)

\* sigder->data[sigder->len - 261] = DER_BIT_STRING, for len >= 261
PatchTag(buf) == [buf EXCEPT ![Len(buf) - PatchOffset + 1] = DER_BIT_STRING]

\* bundle_signature(cms, &sigder, &certder, oid, &signature), as called
\* from main, which drops its return value.
BundleSignature ==
  /\ pc = "bundle"
  /\ LET sig == SigBuffer(signature)
         keytype == generate_algorithm_id(
                        SEC_OID_PKCS1_SHA256_WITH_RSA_ENCRYPTION)
         enc == SignedCertTemplate([data |-> certder.data,
                                    keytype |-> keytype,
                                    sig |-> sig.data])
     IN
     /\ cert_sig' = sig
     /\ \E res \in {"ok", "no_algid", "no_encode"} :
          CASE res = "no_algid" ->
                 /\ bundle_rc' = -1
                 /\ pc' = "write"
                 /\ UNCHANGED <<sigder, exit_status>>
            [] res = "no_encode" ->
                 /\ Exit(1)
                 /\ UNCHANGED <<sigder, bundle_rc>>
            [] res = "ok" ->
                 IF Len(enc) >= PatchOffset
                 THEN /\ sigder' = Item(PatchTag(enc))
                      /\ bundle_rc' = 0
                      /\ pc' = "write"
                      /\ UNCHANGED exit_status
                 ELSE \* the store lands outside the buffer
                      \/ /\ sigder' = Item(enc)
                         /\ bundle_rc' = 0
                         /\ pc' = "write"
                         /\ UNCHANGED exit_status
                      \/ /\ Exit(139)
                         /\ UNCHANGED <<sigder, bundle_rc>>
  /\ UNCHANGED <<env, opts, files, prov, extv, certder, status, signature,
                 write_called, rc>>

\* What write(outfd, data, len) can return: an error, a short count, len.
WriteResults(len) == {-1, len \div 2, len}

\* rc = write(...); if (rc < 0) { unlink(outfile); err(1, ...) } ... return 0
WriteOutput ==
  /\ pc = "write"
  /\ \E n \in WriteResults(sigder.len) :
       /\ rc' = n
       /\ IF n < 0
          THEN outfile' = NoFile /\ Exit(1)
          ELSE /\ outfile' = [exists |-> TRUE,
                              data |-> SubSeq(sigder.data, 1, n)]
               /\ Exit(0)
  /\ write_called' = TRUE
  /\ UNCHANGED <<env, opts, outfd, p12fd, prov, extv, certder, status,
                 signature, cert_sig, sigder, bundle_rc>>

Next ==
  \/ ParseOptions
  \/ ValidateOptions
  \/ OpenFiles
  \/ ReadPubkey
  \/ AllocContext
  \/ InitNSS
  \/ FindCertificate
  \/ ParseSerial
  \/ StartAttributes
  \/ AddSubjectKeyId
  \/ AddBasicConstraints
  \/ AddKeyUsage
  \/ AddExtendedKeyUsage
  \/ AddAuthKeyId
  \/ AddAuthInfo
  \/ FinishExtensions
  \/ generate_signing_certificate
  \/ CheckCertificate
  \/ FindSigningKey
  \/ SignData
  \/ BundleSignature
  \/ WriteOutput

Spec == Init /\ [][Next]_vars


(* ------------------------------ claims --------------------------------- *)
ExtStages == {"skid", "bc", "ku", "eku", "akid", "aia", "finish"}
GenStages == {"gencert"} \cup ExtStages \cup {"gen_ret", "gen_check"}
SignStages == {"find_key", "sign", "bundle", "write"}

ExtOids(es) == [i \in 1..Len(es) |-> es[i].oid]
HasExt(oid) == \E i \in 1..Len(exts) : exts[i].oid = oid
ExtCount(oid) == Cardinality({i \in 1..Len(exts) : exts[i].oid = oid})
IsPrefix(a, b) == Len(a) <= Len(b) /\ SubSeq(b, 1, Len(a)) = a

\* Whether a basic-constraints value decodes to cA = TRUE.
DecodesAsCA(value) ==
  LET t == ParseTLV(value, 1) IN
  /\ Len(value) >= 2
  /\ t.ok
  /\ t.tag = SEC_ASN1_SEQUENCE
  /\ t.len >= 3
  /\ SubSeq(t.content, 1, 3) = <<1, 1, 255>>

\* What a decoder of bundle_signature's output gets back is what went in.
RoundTrip ==
  LET d == DecodeSignedCert(sigder.data) IN
  /\ d.ok
  /\ d.data = certder.data
  /\ d.oid = OidBytes(SEC_OID_PKCS1_SHA256_WITH_RSA_ENCRYPTION)
  /\ d.sigtag = DER_BIT_STRING
  /\ Len(d.sig) = signature.len + 1
  /\ d.sig[1] = 0
  /\ Tail(d.sig) = signature.data

\* C1: whenever bundle_signature returned 0, for every tbs_data and every raw
\* signature length, decoding its output yields tbs_data unchanged, the input
\* OID, and a BIT STRING whose content after the first octet is the raw
\* signature.  Stated for the runs in which SEC_SignData produced the
\* signature and the patched index lies inside the encoded buffer, so that
\* no undefined behaviour takes part in it.
C1_RoundTripAnyLength ==
  (bundle_rc = 0 /\ status = SECSuccess /\ sigder.len >= PatchOffset)
     => RoundTrip

\* The same round trip for the one signature length the patch offset fits:
\* 256 octets, where the signature field is 4 + 257 = 261 octets long.
RoundTripAtPatchOffset ==
  (bundle_rc = 0 /\ signature.len = PatchOffset - 5) => RoundTrip

GenFailed == rc < 0 /\ ~write_called
SignFailed == privkey # NULL /\ status = SECFailure
BundleFailed == bundle_rc < 0

\* C2: whenever certificate generation, SEC_SignData or bundle_signature
\* failed, the write of the output is never reached and the process ends with
\* a non-zero status; a run exits 0 only if every stage succeeded.
C2_EveryErrorFatal ==
  (GenFailed \/ SignFailed \/ BundleFailed)
     => (~write_called /\ (pc = "exit" => exit_status # 0))

TestCAProfile ==
  cn = "Test CA" /\ is_ca = 1 /\ is_self_signed = 1 /\ serial = "1"

\* C3 as stated: for the Test CA profile a successful add_extensions_to_crq
\* has appended exactly the five extensions subject-key-id,
\* basic-constraints, key-usage, extended-key-usage, authority-key-id, with
\* basic-constraints critical and cA = TRUE.
C3_TestCAFiveExtensions ==
  (TestCAProfile /\ crq_rc = 0) =>
     /\ ExtOids(exts) = <<SEC_OID_X509_SUBJECT_KEY_ID,
                          SEC_OID_X509_BASIC_CONSTRAINTS,
                          SEC_OID_X509_KEY_USAGE,
                          SEC_OID_X509_EXT_KEY_USAGE,
                          SEC_OID_X509_AUTH_KEY_ID>>
     /\ exts[2].critical
     /\ DecodesAsCA(exts[2].value)

\* C3 amended: for the Test CA profile a successful add_extensions_to_crq has
\* appended exactly six extensions: the five above followed by
\* authority-info-access, with basic-constraints critical and cA = TRUE.
C3_TestCASixExtensions ==
  (TestCAProfile /\ crq_rc = 0) =>
     /\ ExtOids(exts) = <<SEC_OID_X509_SUBJECT_KEY_ID,
                          SEC_OID_X509_BASIC_CONSTRAINTS,
                          SEC_OID_X509_KEY_USAGE,
                          SEC_OID_X509_EXT_KEY_USAGE,
                          SEC_OID_X509_AUTH_KEY_ID,
                          SEC_OID_X509_AUTH_INFO_ACCESS>>
     /\ exts[2].critical
     /\ DecodesAsCA(exts[2].value)

C3_Witness == TestCAProfile /\ crq_rc = 0 /\ finished

\* C4: after a successful add_extensions_to_crq the extension set holds both
\* key-usage and basic-constraints when is_ca, and neither when not is_ca.
C4_CAOnlyExtensions ==
  crq_rc = 0 =>
     /\ is_ca # 0 => (HasExt(SEC_OID_X509_KEY_USAGE)
                      /\ HasExt(SEC_OID_X509_BASIC_CONSTRAINTS))
     /\ is_ca = 0 => (~HasExt(SEC_OID_X509_KEY_USAGE)
                      /\ ~HasExt(SEC_OID_X509_BASIC_CONSTRAINTS))

C4_Witness == crq_rc = 0 /\ is_ca = 0 /\ finished /\ Len(exts) = 4

\* C5: after a successful add_extensions_to_crq there is exactly one
\* authority-key-id extension; its value is derived from the subject's key
\* when is_self_signed and from the signer's key otherwise, and with a signer
\* whose key is not the subject's it is not the value the subject's key gives.
C5_AuthKeyIdSource ==
  crq_rc = 0 =>
     /\ ExtCount(SEC_OID_X509_AUTH_KEY_ID) = 1
     /\ \A i \in 1..Len(exts) :
          exts[i].oid = SEC_OID_X509_AUTH_KEY_ID =>
             /\ is_self_signed # 0 => exts[i].value = AuthKeyIdValue(pubkey)
             /\ is_self_signed = 0 => exts[i].value = AuthKeyIdValue(cert)
             /\ (is_self_signed = 0 /\ cert # pubkey)
                   => exts[i].value # AuthKeyIdValue(pubkey)

C5_Witness == crq_rc = 0 /\ is_self_signed = 0 /\ cert # pubkey

Conflict == argv.self_sign /\ argv.signer # NULL

\* C6: on a run given both --self-sign and --signer the process never gets
\* past option validation: it ends with a non-zero status with the output
\* file untouched, no file opened, no cms context, no NSS, and no extension,
\* certificate, signature or bundle produced.
C6_ConflictRejectedFirst ==
  Conflict =>
     /\ pc \in {"parse", "validate", "exit"}
     /\ pc = "exit" => exit_status # 0
     /\ outfile = outfile0 /\ outfd = -1 /\ p12fd = -1
     /\ ~cms /\ ~nss
     /\ ~extHandle /\ exts = <<>> /\ certder = NoItem
     /\ signature = NoItem /\ cert_sig = NoItem /\ sigder = NoItem
     /\ ~write_called

C6_Witness ==
  Conflict /\ pc = "exit" /\ is_self_signed = 1 /\ signer # NULL
  /\ outfile0.exists

\* C7: past option validation exactly one of is_self_signed and "a signer was
\* given" holds; without --self-sign, is_self_signed is 1 only if --ca was
\* given and no signer was; a run with none of --ca, --self-sign, --signer is
\* rejected and never self-signed.
C7_SelfSignedXorSigner ==
  /\ pc \in GenStages \cup SignStages
        => ((is_self_signed = 1) # (signer # NULL)) /\ is_self_signed \in {0, 1}
  /\ (~argv.self_sign /\ is_self_signed = 1)
        => (argv.ca /\ argv.signer = NULL)
  /\ (~argv.ca /\ ~argv.self_sign /\ argv.signer = NULL)
        => /\ pc \in {"parse", "validate", "exit"}
           /\ pc = "exit" => exit_status # 0
           /\ is_self_signed # 1

C7_Witness ==
  pc = "gencert" /\ ~argv.self_sign /\ is_self_signed = 1 /\ signer = NULL

\* C8: the buffer bundle_signature encodes is one octet longer than the raw
\* signature, starts with the octet 0 and continues with the raw signature in
\* order; bundle_signature leaves the caller's signature item as it was.
C8_SignatureBuffer ==
  /\ [](cert_sig # NoItem =>
          /\ cert_sig.len = signature.len + 1
          /\ Len(cert_sig.data) = cert_sig.len
          /\ cert_sig.data[1] = 0
          /\ \A i \in 1..signature.len :
               cert_sig.data[i + 1] = signature.data[i])
  /\ [][pc = "bundle" => signature' = signature]_vars

C8_Witness == cert_sig # NoItem /\ signature.len = PatchOffset - 5

\* C9: in every terminal state of a run whose write() did not write the whole
\* certificate, the output file has been removed and the status is non-zero.
C9_NoPartialOutput ==
  (pc = "exit" /\ write_called /\ rc # sigder.len)
     => (~outfile.exists /\ exit_status # 0)

CanonicalOrder ==
  <<SEC_OID_X509_SUBJECT_KEY_ID>>
  \o (IF is_ca # 0
      THEN <<SEC_OID_X509_BASIC_CONSTRAINTS, SEC_OID_X509_KEY_USAGE>>
      ELSE <<>>)
  \o <<SEC_OID_X509_EXT_KEY_USAGE, SEC_OID_X509_AUTH_KEY_ID,
       SEC_OID_X509_AUTH_INFO_ACCESS>>

\* C10: the extensions are appended in the canonical order; the handle is
\* finalised only after the last one; once a step has failed nothing more is
\* appended and the handle is never finalised.
C10_CanonicalOrder ==
  /\ [](/\ IsPrefix(ExtOids(exts), CanonicalOrder)
        /\ finished => ExtOids(exts) = CanonicalOrder
        /\ crq_rc = 0 => finished
        /\ crq_rc < 0 => ~finished)
  /\ [][/\ Len(exts') \in {Len(exts), Len(exts) + 1}
        /\ IsPrefix(exts, exts')
        /\ (crq_rc < 0 \/ finished)
              => (exts' = exts /\ finished' = finished /\ crq_rc' = crq_rc)]_vars

C10_Witness == finished /\ is_ca = 1 /\ Len(exts) = Len(CanonicalOrder)

====
